---------------------------- MODULE Spec2Model ----------------------------
(***************************************************************************)
(* Model of para.py: the pipeline that turns the text of a PDF into        *)
(* paragraph records with the help of a streamed LLM answer.               *)
(*                                                                         *)
(*   main -> welcome -> extract_text -> analyze_document (request, stream  *)
(*   loop, fence stripping, json.loads, validation) -> materialization     *)
(*   loop -> save_json -> print_summary -> exit code.                      *)
(*                                                                         *)
(* Text is a sequence of one-character strings.  The characters of the     *)
(* fallback literal of _create_paragraph_dict are written "wei", "fen",    *)
(* "lei" (one CJK character each), and the backquote character "bq".       *)
(***************************************************************************)
EXTENDS Integers, Sequences, FiniteSets, TLC

VARIABLES
    pc,            \* position of the run in main / extract_text / analyze_document
    exc,           \* the exception in flight ("none" when there is none)
    env,           \* what the outside world answers: input path, PDF, endpoint, disk
    lines,         \* response.iter_lines(): the lines the endpoint streams
    idx,           \* index of the next line of the stream loop
    full_content,  \* the accumulator of the stream loop
    llm_result,    \* what analyze_document returned
    full_text,     \* the text extracted from the PDF
    sec_idx,       \* index of the next element of llm_result['sections']
    paragraphs,    \* the list extract_text builds
    saved,         \* what save_json wrote (NotSaved before)
    exit_code      \* the value main returns (-1 while it runs)

vars == <<pc, exc, env, lines, idx, full_content, llm_result, full_text,
          sec_idx, paragraphs, saved, exit_code>>

-----------------------------------------------------------------------------
(* Bounds of the model                                                     *)

MaxLines == 3       \* longest stream of the stream-loop specification
MaxSections == 2    \* longest sections array of the materialization specification

-----------------------------------------------------------------------------
(* Strings                                                                 *)

\* str.isspace() characters of the model's alphabet
Whitespace == {" ", "\n", "\t"}

RECURSIVE LStrip(_)
LStrip(s) ==
    IF s # <<>> /\ Head(s) \in Whitespace THEN LStrip(Tail(s)) ELSE s

RECURSIVE RStrip(_)
RStrip(s) ==
    IF s # <<>> /\ s[Len(s)] \in Whitespace
    THEN RStrip(SubSeq(s, 1, Len(s) - 1))
    ELSE s

\* str.strip()
Strip(s) == RStrip(LStrip(s))

\* str.startswith(p), str.endswith(p)
StartsWith(s, p) == Len(s) >= Len(p) /\ SubSeq(s, 1, Len(p)) = p
EndsWith(s, p) == Len(s) >= Len(p) /\ SubSeq(s, Len(s) - Len(p) + 1, Len(s)) = p

\* len(s.split()): the number of maximal runs of non-whitespace characters
RECURSIVE SplitCount(_)
SplitCount(s) ==
    IF s = <<>> THEN 0
    ELSE IF Head(s) \in Whitespace THEN SplitCount(Tail(s))
    ELSE IF Len(s) = 1 \/ s[2] \in Whitespace THEN 1 + SplitCount(Tail(s))
    ELSE SplitCount(Tail(s))

\* n * c for a one-character string c
RECURSIVE Repeat(_, _)
Repeat(c, n) == IF n <= 0 THEN <<>> ELSE <<c>> \o Repeat(c, n - 1)

\* s[start:end] of Python: a negative offset counts from the end, and an offset
\* beyond either end of the string is cut to that end
PyIndex(i, n) ==
    LET j == IF i < 0 THEN i + n ELSE i
    IN  IF j < 0 THEN 0 ELSE IF j > n THEN n ELSE j

PySlice(s, start, end) ==
    SubSeq(s, PyIndex(start, Len(s)) + 1, PyIndex(end, Len(s)))

-----------------------------------------------------------------------------
(* The stream loop of analyze_document                                     *)

\* A line of the stream.
\*   blank     an empty line (keep-alive)
\*   other     a non-empty line that does not start with 'data: '
\*   bad_json  'data: ' followed by text json.loads rejects (truncated JSON, [DONE])
\*   bad_shape 'data: ' followed by JSON without choices[0].finish_reason or delta
\*   data      'data: ' followed by a well-formed chunk: finish says whether
\*             choices[0].finish_reason is non-null, has_content whether
\*             choices[0].delta.content is a string (absent and null otherwise)
LineKinds == {"blank", "other", "bad_json", "bad_shape", "data"}

Malformed(line) == line.kind \in {"bad_json", "bad_shape"}

WellFormed(line) == line.kind = "data"

\* data['choices'][0]['delta'].get('content', ''), where null counts as no text
DeltaContent(line) == IF line.has_content THEN line.content ELSE <<>>

\* Mutant of AppendFragment: a fragment equal to the end of the text is dropped
AppendFragmentDedup(acc, content) ==
    IF EndsWith(acc, content) THEN acc ELSE acc \o content

\* full_content += content
AppendFragment(acc, content) == acc \o content

\* What the try block of the loop body raises on a line: json.loads on text
\* that is no JSON, the lookup of a key the chunk does not have
LineException(line) ==
    CASE line.kind = "bad_json" -> "JSONDecodeError"
      [] line.kind = "bad_shape" -> "KeyError"
      [] OTHER -> "none"

\* Mutant of CaughtInLoop: the handler catches the JSON syntax error alone
CaughtJsonErrorOnly(e) == e = "JSONDecodeError"

\* The inner handler is except Exception: it catches whatever the body raises
CaughtInLoop(e) == TRUE

\* Mutant of IterLine: a chunk with a finish marker ends the loop (break where
\* the code has continue)
IterLineBreakOnFinish ==
    /\ pc = "stream"
    /\ idx <= Len(lines)
    /\ LET line == lines[idx]
       IN  IF WellFormed(line) /\ line.finish
           THEN /\ pc' = "clean"
                /\ UNCHANGED <<idx, full_content>>
           ELSE /\ full_content' =
                     IF WellFormed(line) /\ DeltaContent(line) # <<>>
                     THEN AppendFragment(full_content, DeltaContent(line))
                     ELSE full_content
                /\ idx' = idx + 1
                /\ pc' = pc
    /\ UNCHANGED <<exc, env, lines, llm_result, full_text, sec_idx, paragraphs,
                   saved, exit_code>>

\* One pass of the body of the loop over response.iter_lines().  An exception
\* the inner handler does not catch leaves analyze_document.
IterLine ==
    /\ pc = "stream"
    /\ idx <= Len(lines)
    /\ LET line == lines[idx]
           e == LineException(line)
       IN  IF e # "none" /\ ~CaughtInLoop(e)
           THEN /\ pc' = "except"
                /\ exc' = e
                /\ UNCHANGED <<idx, full_content>>
           ELSE /\ full_content' =
                     IF line.kind = "blank" THEN full_content       \* if line:
                     ELSE IF line.kind = "other" THEN full_content  \* startswith('data: ')
                     ELSE IF e # "none" THEN full_content           \* except: continue
                     ELSE IF line.finish THEN full_content          \* finish_reason
                     ELSE IF DeltaContent(line) # <<>>              \* if content:
                          THEN AppendFragment(full_content, DeltaContent(line))
                          ELSE full_content
                /\ idx' = idx + 1
                /\ UNCHANGED <<pc, exc>>
    /\ UNCHANGED <<env, lines, llm_result, full_text, sec_idx, paragraphs,
                   saved, exit_code>>

\* The stream is exhausted: the loop ends and the payload is cleaned and parsed
StreamEnd ==
    /\ pc = "stream"
    /\ idx > Len(lines)
    /\ pc' = "clean"
    /\ UNCHANGED <<exc, env, lines, idx, full_content, llm_result, full_text,
                   sec_idx, paragraphs, saved, exit_code>>

-----------------------------------------------------------------------------
(* JSON values and json.loads                                              *)

\* Decoded JSON values.  An object records whether it has the key 'sections'
\* and the value under it; a section is an object with the four descriptor
\* keys holding their values.
JNull == [t |-> "null"]

JNumber == [t |-> "number"]

JString(text) == [t |-> "string", text |-> text]

JArray(items) == [t |-> "array", items |-> items]

JObjectWithout == [t |-> "object", has_sections |-> FALSE, sections |-> JNull]

JObjectWith(v) == [t |-> "object", has_sections |-> TRUE, sections |-> v]

JSection(level, path, start, end) ==
    [t |-> "section", heading_level |-> level, chapter_path |-> path,
     start_position |-> start, end_position |-> end]

\* The two descriptors the payload texts of the model spell out: "D" is a
\* heading at [0, 2), "E" body text at [2, 5) without a chapter path
SectionD == JSection(1, <<"I", "n">>, 0, 2)

SectionE == JSection(0, <<>>, 2, 5)

\* json.loads on the payload texts of the model.  A payload text is written in
\* tokens: { } [ ] , stand for themselves, "S" for the key "sections": with its
\* colon, "K" for another key with its colon, "5" for a number, "N" for null,
\* "Q" for the string "sections", "D" and "E" for the two descriptor objects
\* and "B" for an object that lacks the descriptor keys.  Whitespace between
\* tokens is insignificant; every other text is a syntax error.
JsonTable(u) ==
    CASE u = <<"{", "}">> -> JObjectWithout
      [] u = <<"{", "K", "5", "}">> -> JObjectWithout
      [] u = <<"{", "S", "[", "]", "}">> -> JObjectWith(JArray(<<>>))
      [] u = <<"{", "S", "[", "D", "]", "}">> -> JObjectWith(JArray(<<SectionD>>))
      [] u = <<"{", "S", "[", "E", ",", "D", "]", "}">> ->
             JObjectWith(JArray(<<SectionE, SectionD>>))
      [] u = <<"{", "S", "[", "D", ",", "B", "]", "}">> ->
             JObjectWith(JArray(<<SectionD, JObjectWithout>>))
      [] u = <<"{", "S", "5", "}">> -> JObjectWith(JNumber)
      [] u = <<"{", "S", "N", "}">> -> JObjectWith(JNull)
      [] u = <<"{", "S", "Q", "}">> -> JObjectWith(JString("sections"))
      [] u = <<"{", "S", "{", "}", "}">> -> JObjectWith(JObjectWithout)
      [] u = <<"[", "]">> -> JArray(<<>>)
      [] u = <<"[", "Q", "]">> -> JArray(<<JString("sections")>>)
      [] u = <<"Q">> -> JString("sections")
      [] u = <<"5">> -> JNumber
      [] u = <<"N">> -> JNull
      [] OTHER -> [t |-> "JSONDecodeError"]

NotWhitespace(c) == c \notin Whitespace

json_loads(s) == JsonTable(SelectSeq(s, NotWhitespace))

Decodes(s) == json_loads(s).t # "JSONDecodeError"

-----------------------------------------------------------------------------
(* Cleaning, parsing and validating the assembled payload                  *)

FenceJson == <<"bq", "bq", "bq", "j", "s", "o", "n">>

Fence == <<"bq", "bq", "bq">>

\* content = full_content.strip(); drop a leading fence tagged json; drop a
\* trailing fence;
\* content = content.strip()
CleanPayload(text) ==
    LET c1 == Strip(text)
        c2 == IF StartsWith(c1, FenceJson) THEN SubSeq(c1, 8, Len(c1)) ELSE c1
        c3 == IF EndsWith(c2, Fence) THEN SubSeq(c2, 1, Len(c2) - 3) ELSE c2
    IN  Strip(c3)

\* The membership test 'sections' in parsed_result: yes, no, or the TypeError
\* of a value that is no container
InSections(v) ==
    CASE v.t = "object" -> IF v.has_sections THEN "yes" ELSE "no"
      [] v.t = "section" -> "no"
      [] v.t = "array" ->
           IF \E i \in 1..Len(v.items) : v.items[i] = JString("sections")
           THEN "yes" ELSE "no"
      [] v.t = "string" -> IF v.text = "sections" THEN "yes" ELSE "no"
      [] OTHER -> "TypeError"

\* len(x) is defined for arrays, strings and objects
HasLen(v) == v.t \in {"array", "string", "object", "section"}

NoResult == [t |-> "none"]

Returned(v) == [raised |-> "none", value |-> v]

Raised(e) == [raised |-> e, value |-> NoResult]

\* The validation after json.loads: the membership test, the ValueError, and
\* the print of len(parsed_result['sections'])
ValidateResult(v) ==
    IF InSections(v) = "TypeError" THEN Raised("TypeError")
    ELSE IF InSections(v) = "no" THEN Raised("ValueError")
    ELSE IF v.t # "object" THEN Raised("TypeError")     \* parsed_result['sections']
    ELSE IF ~HasLen(v.sections) THEN Raised("TypeError")
    ELSE Returned(v)

\* analyze_document from the end of the stream on
ParsePayload(text) ==
    LET content == CleanPayload(text)
    IN  IF ~Decodes(content) THEN Raised("JSONDecodeError")
        ELSE ValidateResult(json_loads(content))

CleanAndParse ==
    /\ pc = "clean"
    /\ LET out == ParsePayload(full_content)
       IN  /\ exc' = out.raised
           /\ llm_result' = out.value
           /\ pc' = IF out.raised = "none" THEN "check" ELSE "except"
    /\ UNCHANGED <<env, lines, idx, full_content, full_text, sec_idx,
                   paragraphs, saved, exit_code>>

-----------------------------------------------------------------------------
(* Materialization: extract_text after analyze_document has returned       *)

\* bool(x) of a decoded value
Truthy(v) ==
    CASE v.t = "none" -> FALSE
      [] v.t = "null" -> FALSE
      [] v.t = "array" -> v.items # <<>>
      [] v.t = "object" -> v.has_sections
      [] OTHER -> TRUE

\* What `for section in llm_result['sections']` iterates over: the items of an
\* array, the characters of a string, the keys of an object
IterItems(v) ==
    CASE v.t = "array" -> v.items
      [] v.t = "string" ->
           <<JString("s"), JString("e"), JString("c"), JString("t"),
             JString("i"), JString("o"), JString("n"), JString("s")>>
      [] v.t = "object" -> IF v.has_sections THEN <<JString("sections")>> ELSE <<>>
      [] OTHER -> <<>>

\* if not llm_result: raise Exception
CheckLlmResult ==
    /\ pc = "check"
    /\ IF Truthy(llm_result)
       THEN /\ pc' = "materialize"
            /\ sec_idx' = 1
            /\ paragraphs' = <<>>
            /\ exc' = exc
       ELSE /\ pc' = "except"
            /\ exc' = "Exception"
            /\ UNCHANGED <<sec_idx, paragraphs>>
    /\ UNCHANGED <<env, lines, idx, full_content, llm_result, full_text,
                   saved, exit_code>>

chars_per_page == 2000

Max(a, b) == IF a >= b THEN a ELSE b

\* Mutant of estimate_page_number: the lower bound of one page is missing
estimate_page_number_unbounded(start_position) ==
    (start_position \div chars_per_page) + 1

\* _estimate_page_number; // is floor division, as \div is
estimate_page_number(start_position) ==
    Max(1, (start_position \div chars_per_page) + 1)

\* The fallback literal of _create_paragraph_dict
FallbackChapter == <<"wei", "lei">>

\* The chapter field of _create_paragraph_dict
FormatChapter(content, heading_level, chapter_path) ==
    IF heading_level > 0
    THEN Repeat("#", heading_level) \o <<" ">> \o content
    ELSE IF chapter_path # <<>> THEN chapter_path ELSE FallbackChapter

\* _create_paragraph_dict; uuid stands for str(uuid.uuid4())
create_paragraph_dict(content, heading_level, chapter_path, page_num, uuid) ==
    [paragraph_id |-> uuid,
     heading_level |-> heading_level,
     chapter |-> FormatChapter(content, heading_level, chapter_path),
     content |-> Strip(content),
     word_count |-> SplitCount(content),
     translation_status |-> "pending",
     position |-> [page |-> page_num, sequence |-> "None"]]

\* Mutant of SectionContent: the slice takes one character too many
SectionContentInclusive(text, section) ==
    Strip(PySlice(text, section.start_position, section.end_position + 1))

\* content = full_text[section['start_position']:section['end_position']].strip()
SectionContent(text, section) ==
    Strip(PySlice(text, section.start_position, section.end_position))

\* The paragraph record the loop body builds from one descriptor
ParagraphOf(text, section, uuid) ==
    create_paragraph_dict(SectionContent(text, section),
                          section.heading_level,
                          section.chapter_path,
                          estimate_page_number(section.start_position),
                          uuid)

\* Mutant of AppendParagraph: the new record goes to the front of the list
PrependParagraph(list, para) == <<para>> \o list

\* paragraphs.append(para_dict)
AppendParagraph(list, para) == Append(list, para)

\* One pass of the body of `for section in llm_result['sections']`.  An item
\* that is no descriptor object fails on section['start_position'].
MaterializeSection ==
    /\ pc = "materialize"
    /\ sec_idx <= Len(IterItems(llm_result.sections))
    /\ LET section == IterItems(llm_result.sections)[sec_idx]
       IN  IF section.t = "section"
           THEN /\ paragraphs' =
                     AppendParagraph(paragraphs,
                         ParagraphOf(full_text, section, Len(paragraphs) + 1))
                /\ sec_idx' = sec_idx + 1
                /\ UNCHANGED <<pc, exc>>
           ELSE /\ pc' = "except"
                /\ exc' = IF section.t = "object" THEN "KeyError" ELSE "TypeError"
                /\ UNCHANGED <<sec_idx, paragraphs>>
    /\ UNCHANGED <<env, lines, idx, full_content, llm_result, full_text,
                   saved, exit_code>>

\* return paragraphs
MaterializeReturn ==
    /\ pc = "materialize"
    /\ sec_idx > Len(IterItems(llm_result.sections))
    /\ pc' = "save"
    /\ UNCHANGED <<exc, env, lines, idx, full_content, llm_result, full_text,
                   sec_idx, paragraphs, saved, exit_code>>

-----------------------------------------------------------------------------
(* main and the stages around the core                                     *)

NotSaved == [written |-> FALSE, records |-> <<>>]

\* welcome(): the path typed in, or the first PDF of pdf_in
Welcome ==
    /\ pc = "welcome"
    /\ IF env.file_path = ""
       THEN IF env.dir_has_pdf
            THEN pc' = "read_pdf" /\ exc' = exc
            ELSE pc' = "except" /\ exc' = "FileNotFoundError"
       ELSE IF env.file_path = "missing"
            THEN pc' = "except" /\ exc' = "FileNotFoundError"
            ELSE pc' = "read_pdf" /\ exc' = exc
    /\ UNCHANGED <<env, lines, idx, full_content, llm_result, full_text,
                   sec_idx, paragraphs, saved, exit_code>>

\* extract_text: open the PDF and join the text of its pages
ReadPdf ==
    /\ pc = "read_pdf"
    /\ IF env.pdf_ok
       THEN /\ full_text' = env.text
            /\ pc' = "post"
            /\ exc' = exc
       ELSE /\ pc' = "except"
            /\ exc' = "PdfReadError"
            /\ full_text' = full_text
    /\ UNCHANGED <<env, lines, idx, full_content, llm_result, sec_idx,
                   paragraphs, saved, exit_code>>

\* requests.post and the test of response.status_code
PostRequest ==
    /\ pc = "post"
    /\ IF env.net # "ok"
       THEN /\ pc' = "except"
            /\ exc' = env.net
            /\ UNCHANGED <<idx, full_content>>
       ELSE IF env.status_code = 200
            THEN /\ pc' = "stream"
                 /\ idx' = 1
                 /\ full_content' = <<>>
                 /\ exc' = exc
            ELSE /\ pc' = "except"
                 /\ exc' = "Exception"
                 /\ UNCHANGED <<idx, full_content>>
    /\ UNCHANGED <<env, lines, llm_result, full_text, sec_idx, paragraphs,
                   saved, exit_code>>

\* save_json
SaveJson ==
    /\ pc = "save"
    /\ IF env.save_ok
       THEN /\ saved' = [written |-> TRUE, records |-> paragraphs]
            /\ pc' = "summary"
            /\ exc' = exc
       ELSE /\ pc' = "except"
            /\ exc' = "OSError"
            /\ saved' = saved
    /\ UNCHANGED <<env, lines, idx, full_content, llm_result, full_text,
                   sec_idx, paragraphs, exit_code>>

\* print_summary
PrintSummary ==
    /\ pc = "summary"
    /\ pc' = "return"
    /\ UNCHANGED <<exc, env, lines, idx, full_content, llm_result, full_text,
                   sec_idx, paragraphs, saved, exit_code>>

\* main: return 0
MainReturn ==
    /\ pc = "return"
    /\ exit_code' = 0
    /\ pc' = "exit"
    /\ UNCHANGED <<exc, env, lines, idx, full_content, llm_result, full_text,
                   sec_idx, paragraphs, saved>>

\* main: except Exception as e: ... return 1
MainExcept ==
    /\ pc = "except"
    /\ exit_code' = 1
    /\ pc' = "exit"
    /\ UNCHANGED <<exc, env, lines, idx, full_content, llm_result, full_text,
                   sec_idx, paragraphs, saved>>

-----------------------------------------------------------------------------
(* Inputs and specifications                                               *)

SeqsUpTo(S, n) == UNION {[1..k -> S] : k \in 0..n}

NoEnv ==
    [file_path |-> "paper", dir_has_pdf |-> TRUE, pdf_ok |-> TRUE, text |-> <<>>,
     net |-> "ok", status_code |-> 200, save_ok |-> TRUE]

\* The extracted texts of the model
TextA == <<" ", "a", " ", "b", "\n">>

TextB == <<"a", "b", "\t", " ", "c">>

Texts == {TextA, TextB}

\* The lines an endpoint can stream
Contents == {<<>>, <<"a">>, <<"b">>}

DataLines ==
    {[kind |-> "data", finish |-> f, has_content |-> TRUE, content |-> c] :
        f \in BOOLEAN, c \in Contents}
    \cup {[kind |-> "data", finish |-> f, has_content |-> FALSE, content |-> <<>>] :
        f \in BOOLEAN}

OtherLines ==
    {[kind |-> k, finish |-> FALSE, has_content |-> FALSE, content |-> <<>>] :
        k \in LineKinds \ {"data"}}

Lines == DataLines \cup OtherLines

Delta(c) == [kind |-> "data", finish |-> FALSE, has_content |-> TRUE, content |-> c]

\* Stream loop alone: any stream of at most MaxLines lines
InitStream ==
    /\ pc = "stream"
    /\ exc = "none"
    /\ env = NoEnv
    /\ lines \in SeqsUpTo(Lines, MaxLines)
    /\ idx = 1
    /\ full_content = <<>>
    /\ llm_result = NoResult
    /\ full_text = <<>>
    /\ sec_idx = 1
    /\ paragraphs = <<>>
    /\ saved = NotSaved
    /\ exit_code = -1

NextStream == IterLine \/ StreamEnd

SpecStream == InitStream /\ [][NextStream]_vars

\* The payload texts: a body, bare or between fences, with or without
\* whitespace around the parts
Bodies ==
    {<<"{", "}">>, <<"{", "K", "5", "}">>, <<"{", "S", "[", "]", "}">>,
     <<"{", "S", "[", "D", "]", "}">>, <<"{", "S", "[", "E", ",", "D", "]", "}">>,
     <<"{", "S", "[", "D", ",", "B", "]", "}">>,
     <<"{", " ", "S", "\n", "[", "D", "]", "}">>,
     <<"{", "S", "5", "}">>, <<"{", "S", "N", "}">>, <<"{", "S", "Q", "}">>,
     <<"{", "S", "{", "}", "}">>, <<"[", "]">>, <<"[", "Q", "]">>, <<"Q">>,
     <<"5">>, <<"N">>, <<"{", "S", "[", "D">>, <<>>}

Gaps == {<<>>, <<"\n">>}

OpenFences == {FenceJson, Fence}

Openings == {<<>>} \cup OpenFences

Closings == {<<>>, Fence}

Wrap(open, gap, body, close) ==
    open \o (IF open = <<>> THEN <<>> ELSE gap) \o body
         \o (IF close = <<>> THEN <<>> ELSE gap) \o close

Payloads ==
    {pre \o Wrap(open, gap, body, close) \o pre :
        pre \in Gaps, open \in Openings, gap \in Gaps, body \in Bodies,
        close \in Closings}

\* Cleaning and parsing alone: any payload text
InitParse ==
    /\ pc = "clean"
    /\ exc = "none"
    /\ env = NoEnv
    /\ lines = <<>>
    /\ idx = 1
    /\ full_content \in Payloads
    /\ llm_result = NoResult
    /\ full_text = <<>>
    /\ sec_idx = 1
    /\ paragraphs = <<>>
    /\ saved = NotSaved
    /\ exit_code = -1

NextParse == CleanAndParse

SpecParse == InitParse /\ [][NextParse]_vars

\* The sections arrays of the materialization specification: arrays of at most
\* MaxSections descriptors over a set of offsets that holds negative offsets
\* and offsets beyond the text; one-descriptor arrays over the heading levels
\* and chapter paths; two-descriptor arrays over start positions on several
\* pages
Offsets == {-6, -1, 0, 2, 5, 7}

OffsetSections ==
    {JSection(0, <<"I", "n">>, s, e) : s \in Offsets, e \in Offsets}

HeadingLevels == 0..6

ChapterPaths == {<<>>, <<"I", "n">>}

ChapterSections ==
    {JSection(l, p, 0, e) : l \in HeadingLevels, p \in ChapterPaths, e \in {0, 5}}

PagePositions ==
    {-4500, -2001, -2000, -1, 0, 1, 1999, 2000, 2001, 3999, 4000, 4500}

PageSections == {JSection(0, <<>>, s, s) : s \in PagePositions}

SectionArrays ==
    SeqsUpTo(OffsetSections, MaxSections)
    \cup [1..1 -> ChapterSections]
    \cup [1..2 -> PageSections]

\* Materialization alone: any text of the model and any of these arrays
InitMat ==
    /\ pc = "check"
    /\ exc = "none"
    /\ env = NoEnv
    /\ lines = <<>>
    /\ idx = 1
    /\ full_content = <<>>
    /\ llm_result \in {JObjectWith(JArray(a)) : a \in SectionArrays}
    /\ full_text \in Texts
    /\ sec_idx = 1
    /\ paragraphs = <<>>
    /\ saved = NotSaved
    /\ exit_code = -1

NextMat == CheckLlmResult \/ MaterializeSection \/ MaterializeReturn

SpecMat == InitMat /\ [][NextMat]_vars

\* A whole run of main.  The endpoint streams one of the bodies, in fragments,
\* between fences or bare, possibly with a malformed line on the way.
StreamOf(open, body, close, bad) ==
    (IF open = <<>> THEN <<>> ELSE <<Delta(open \o <<"\n">>)>>)
    \o <<Delta(IF body = <<>> THEN <<>> ELSE <<Head(body)>>)>>
    \o (IF bad THEN <<[kind |-> "bad_json", finish |-> FALSE,
                       has_content |-> FALSE, content |-> <<>>]>>
        ELSE <<>>)
    \o <<Delta(IF body = <<>> THEN <<>> ELSE Tail(body))>>
    \o (IF close = <<>> THEN <<>> ELSE <<Delta(<<"\n">> \o close)>>)
    \o <<[kind |-> "data", finish |-> TRUE, has_content |-> FALSE, content |-> <<>>]>>

MainStreams ==
    {StreamOf(open, body, close, bad) :
        open \in {<<>>, FenceJson}, body \in Bodies, close \in Closings,
        bad \in BOOLEAN}

Envs ==
    [file_path : {"", "missing", "paper"}, dir_has_pdf : BOOLEAN,
     pdf_ok : BOOLEAN, text : {TextA},
     net : {"ok", "Timeout", "ConnectionError"}, status_code : {200, 500},
     save_ok : BOOLEAN]

Init ==
    /\ pc = "welcome"
    /\ exc = "none"
    /\ env \in Envs
    /\ lines \in MainStreams
    /\ idx = 1
    /\ full_content = <<>>
    /\ llm_result = NoResult
    /\ full_text = <<>>
    /\ sec_idx = 1
    /\ paragraphs = <<>>
    /\ saved = NotSaved
    /\ exit_code = -1

Next ==
    \/ Welcome
    \/ ReadPdf
    \/ PostRequest
    \/ IterLine
    \/ StreamEnd
    \/ CleanAndParse
    \/ CheckLlmResult
    \/ MaterializeSection
    \/ MaterializeReturn
    \/ SaveJson
    \/ PrintSummary
    \/ MainReturn
    \/ MainExcept

Spec == Init /\ [][Next]_vars

-----------------------------------------------------------------------------
(* Claims about the stream loop (SpecStream)                               *)

\* The lines the loop has consumed so far
Consumed == SubSeq(lines, 1, idx - 1)

AllWellFormed(ls) == \A i \in 1..Len(ls) : WellFormed(ls[i])

\* The delta.content texts of a sequence of lines, joined in order
RECURSIVE JoinContents(_)
JoinContents(ls) ==
    IF ls = <<>> THEN <<>> ELSE DeltaContent(Head(ls)) \o JoinContents(Tail(ls))

NoFinishMarker(line) == ~line.finish

\* C1 as stated: at the end of a stream of well-formed chunks the text is the
\* delta.content of every chunk, joined in arrival order.
C1_AllContentsJoined ==
    (pc = "clean" /\ AllWellFormed(lines)) => full_content = JoinContents(lines)

\* C1, amended: at every point of a stream of well-formed chunks the text is the
\* delta.content of the consumed chunks that carry no finish marker, joined in
\* arrival order, equal fragments included.
C1_ContentsJoinedInOrder ==
    (pc \in {"stream", "clean"} /\ AllWellFormed(lines)) =>
        full_content = JoinContents(SelectSeq(Consumed, NoFinishMarker))

C1_Witness ==
    /\ pc = "clean"
    /\ lines = <<Delta(<<"a">>), Delta(<<"a">>), Delta(<<"b">>)>>
    /\ full_content = <<"a", "a", "b">>

HasMalformed(ls) == \E i \in 1..Len(ls) : Malformed(ls[i])

\* What a well-formed chunk contributes to the text
Fragment(line) == IF line.finish THEN <<>> ELSE DeltaContent(line)

RECURSIVE JoinFragments(_)
JoinFragments(ls) ==
    IF ls = <<>> THEN <<>> ELSE Fragment(Head(ls)) \o JoinFragments(Tail(ls))

\* C2: in a stream with a malformed chunk the loop never leaves by an
\* exception, it ends only when every line has been consumed, and at every
\* point the text is what the well-formed chunks consumed so far contribute,
\* in arrival order (so a malformed chunk leaves the text as it was).
C2_MalformedChunkSkipped ==
    HasMalformed(lines) =>
        /\ pc \in {"stream", "clean"}
        /\ exc = "none"
        /\ pc = "clean" => idx = Len(lines) + 1
        /\ full_content = JoinFragments(SelectSeq(Consumed, WellFormed))

C2_Witness ==
    /\ pc = "clean"
    /\ Len(lines) = 3
    /\ lines[1] = Delta(<<"a">>)
    /\ lines[2].kind = "bad_shape"
    /\ lines[3] = Delta(<<"b">>)
    /\ full_content = <<"a", "b">>

\* C11: a step of the loop on a well-formed chunk with a finish marker leaves
\* the text as it is and goes on to the next line without leaving the loop; a
\* step on any other well-formed chunk appends its delta.content (possibly
\* empty) to the text and goes on to the next line.
C11_FinishSkippedOthersAppended ==
    [][(pc = "stream" /\ idx <= Len(lines) /\ WellFormed(lines[idx])) =>
          /\ pc' = "stream"
          /\ idx' = idx + 1
          /\ exc' = "none"
          /\ full_content' =
                IF lines[idx].finish THEN full_content
                ELSE full_content \o DeltaContent(lines[idx])]_vars

C11_Witness ==
    /\ pc = "clean"
    /\ Len(lines) = 3
    /\ lines[1] = Delta(<<"a">>)
    /\ lines[2] = [kind |-> "data", finish |-> TRUE, has_content |-> TRUE,
                   content |-> <<"b">>]
    /\ lines[3] = Delta(<<"a">>)
    /\ full_content = <<"a", "a">>

-----------------------------------------------------------------------------
(* Claims about cleaning, parsing and validation (SpecParse)               *)

\* The decoded value has a 'sections' field that holds a sequence
HasSectionsSequence(v) ==
    v.t = "object" /\ v.has_sections /\ v.sections.t = "array"

\* The payload decodes to a valid structured result
ValidPayload(body) ==
    /\ ParsePayload(body).raised = "none"
    /\ HasSectionsSequence(ParsePayload(body).value)

\* C3: a payload that decodes to a valid result, put between an opening fence
\* (tagged json or untagged) and a closing fence, gives the result of the
\* payload itself.
C3_FencedDecodesAsBare ==
    pc # "clean" =>
        \A body \in Bodies, open \in OpenFences, gap \in Gaps :
            (ValidPayload(body) /\ full_content = Wrap(open, gap, body, Fence))
            => (exc = "none" /\ llm_result = ParsePayload(body).value)

\* C4: a payload that decodes as JSON without a 'sections' field holding a
\* sequence ends in the ValueError that names the field, and in nothing else.
C4_SchemaViolationRaisesValueError ==
    (/\ pc # "clean"
     /\ Decodes(CleanPayload(full_content))
     /\ ~HasSectionsSequence(json_loads(CleanPayload(full_content))))
    => (exc = "ValueError" /\ llm_result = NoResult)

-----------------------------------------------------------------------------
(* Claims about materialization (SpecMat)                                  *)

\* The sections array of the run, and the descriptor of the i-th record
Sections == llm_result.sections.items

\* The literal the specification gives for a body paragraph without a path
UnclassifiedLiteral == <<"wei", "fen", "lei">>

\* C5: the chapter of a heading is heading_level '#', a space and the content;
\* the chapter of body text is its chapter_path, or the literal for
\* "unclassified" when the path is empty.
C5_ChapterFormat ==
    pc \in {"materialize", "save"} =>
        \A i \in 1..Len(paragraphs) :
            LET d == Sections[i]
                p == paragraphs[i]
            IN  /\ d.heading_level > 0 =>
                     p.chapter = Repeat("#", d.heading_level) \o <<" ">> \o p.content
                /\ d.heading_level = 0 =>
                     p.chapter = IF d.chapter_path # <<>> THEN d.chapter_path
                                 ELSE UnclassifiedLiteral

\* An offset cut to the range [0, n]
Clamp(i, n) == IF i < 0 THEN 0 ELSE IF i > n THEN n ELSE i

ClampedSlice(s, start, end) == SubSeq(s, Clamp(start, Len(s)) + 1, Clamp(end, Len(s)))

\* C6: whatever the integer offsets of the descriptors (overlapping, reversed,
\* negative, beyond the text), materialization does not fail, every descriptor
\* gets its record, and the content of each record is the slice between its
\* offsets clamped to [0, len(full_text)].
C6_OffsetsClamped ==
    /\ pc \in {"check", "materialize", "save"}
    /\ exc = "none"
    /\ pc = "save" => Len(paragraphs) = Len(Sections)
    /\ pc \in {"materialize", "save"} =>
          \A i \in 1..Len(paragraphs) :
              paragraphs[i].content =
                  Strip(ClampedSlice(full_text, Sections[i].start_position,
                                     Sections[i].end_position))

ValidOffsets(d) ==
    0 <= d.start_position /\ d.start_position <= d.end_position
        /\ d.end_position <= Len(full_text)

\* The number of whitespace-delimited tokens of s: the places where a token
\* starts
TokenCount(s) ==
    Cardinality({i \in 1..Len(s) :
        s[i] \notin Whitespace /\ (i = 1 \/ s[i - 1] \in Whitespace)})

\* The text without the whitespace at its two ends
Trimmed(s) ==
    IF \A i \in 1..Len(s) : s[i] \in Whitespace THEN <<>>
    ELSE LET first == CHOOSE i \in 1..Len(s) :
                 s[i] \notin Whitespace /\ \A j \in 1..(i - 1) : s[j] \in Whitespace
             last == CHOOSE i \in 1..Len(s) :
                 s[i] \notin Whitespace /\ \A j \in (i + 1)..Len(s) : s[j] \in Whitespace
         IN  SubSeq(s, first, last)

\* C7: for a descriptor with 0 <= start <= end <= len(full_text) the content of
\* its record is full_text[start:end] without the whitespace at its ends, and
\* word_count is the number of whitespace-delimited tokens of that content.
C7_ContentAndWordCount ==
    pc \in {"materialize", "save"} =>
        \A i \in 1..Len(paragraphs) :
            ValidOffsets(Sections[i]) =>
                /\ paragraphs[i].content =
                     Trimmed(SubSeq(full_text, Sections[i].start_position + 1,
                                    Sections[i].end_position))
                /\ paragraphs[i].word_count = TokenCount(paragraphs[i].content)

C7_Witness ==
    /\ pc = "save"
    /\ \E i \in 1..Len(paragraphs) :
          /\ ValidOffsets(Sections[i])
          /\ paragraphs[i].word_count = 2
          /\ Len(paragraphs[i].content) <
                Sections[i].end_position - Sections[i].start_position

\* C8: one record per descriptor, the i-th record built from the i-th
\* descriptor, whatever the order of the start positions.
C8_ArrayOrderKept ==
    /\ pc = "materialize" => Len(paragraphs) = sec_idx - 1
    /\ pc = "save" => Len(paragraphs) = Len(Sections)
    /\ pc \in {"materialize", "save"} =>
          \A i \in 1..Len(paragraphs) :
              /\ paragraphs[i].heading_level = Sections[i].heading_level
              /\ paragraphs[i].content =
                   Strip(PySlice(full_text, Sections[i].start_position,
                                 Sections[i].end_position))
              /\ paragraphs[i].position.page =
                   Max(1, (Sections[i].start_position \div 2000) + 1)

C8_Witness ==
    /\ pc = "save"
    /\ Len(paragraphs) = 2
    /\ Sections[1].start_position > Sections[2].start_position
    /\ Sections[2].end_position > Sections[1].start_position
    /\ paragraphs[1].content # paragraphs[2].content
    /\ paragraphs[1].content # <<>>

\* C9: the page of a record is at least 1, it is 1 below start position 2000
\* and otherwise the page whose 2000 characters hold the start position, and
\* it does not decrease when the start position grows.
C9_PageNumber ==
    pc \in {"materialize", "save"} =>
        /\ \A i \in 1..Len(paragraphs) :
              LET start == Sections[i].start_position
                  page == paragraphs[i].position.page
              IN  /\ page >= 1
                  /\ start < 2000 => page = 1
                  /\ start >= 2000 =>
                       (2000 * (page - 1) <= start /\ start < 2000 * page)
                  /\ start = 0 => page = 1
                  /\ start = 4500 => page = 3
        /\ \A i, j \in 1..Len(paragraphs) :
              Sections[i].start_position <= Sections[j].start_position
                  => paragraphs[i].position.page <= paragraphs[j].position.page

C9_Witness ==
    /\ pc = "save"
    /\ Len(paragraphs) = 2
    /\ Sections[1].start_position = 4500
    /\ paragraphs[1].position.page = 3
    /\ Sections[2].start_position = -2001
    /\ paragraphs[2].position.page = 1

-----------------------------------------------------------------------------
(* Claims about a whole run of main (Spec)                                 *)

\* Input resolution fails: the path typed in does not exist, or none was typed
\* and pdf_in holds no PDF
InputFails ==
    env.file_path = "missing" \/ (env.file_path = "" /\ ~env.dir_has_pdf)

\* The payload the endpoint streams: what its well-formed chunks contribute
StreamedPayload == JoinFragments(SelectSeq(lines, WellFormed))

\* The payload cannot be parsed, or violates the schema: no 'sections' field
\* holding a sequence, or an element that is no descriptor
PayloadFails ==
    LET content == CleanPayload(StreamedPayload)
        v == json_loads(content)
    IN  \/ ~Decodes(content)
        \/ ~HasSectionsSequence(v)
        \/ \E i \in 1..Len(v.sections.items) : v.sections.items[i].t # "section"

FatalFailure ==
    \/ InputFails
    \/ ~env.pdf_ok
    \/ env.net # "ok"
    \/ env.status_code # 200
    \/ PayloadFails
    \/ ~env.save_ok

\* C10: main returns 1 when a fatal failure occurs (input resolution, network,
\* endpoint status, unparsable or schema-violating payload, output write) and
\* 0 otherwise, and after a failure nothing has been saved.
C10_ExitCode ==
    pc = "exit" =>
        /\ exit_code = IF FatalFailure THEN 1 ELSE 0
        /\ exit_code = 1 => ~saved.written

=============================================================================
